---- MODULE Spec2Model ----
(***************************************************************************)
(* Model of the broadcast Channel[T] of src/broadcast.go: a registry of    *)
(* subscriber sinks (Go channels), a cached last value and a closed flag,  *)
(* all guarded by one mutex.  Threads call Subscribe, the closer returned  *)
(* by Subscribe, Publish, Close, Last and IsClosed; each sink has one      *)
(* consumer that receives from it without taking the mutex.                *)
(*                                                                         *)
(* Environment: a sink handed to Subscribe on an open Channel is an open   *)
(* Go channel (the documented use: "create a new channel and attempt       *)
(* re-subscribing"), and only the Channel sends on or closes a sink.       *)
(***************************************************************************)
EXTENDS Integers, Sequences, FiniteSets, TLC

\* ---------------------------------------------------------------- bounds
NumSinks == 2
NumThreads == 2
MaxPublish == 3

\* ------------------------------------------------------------- constants
Zero == 0

Sinks == 1..NumSinks
Threads == 1..NumThreads
Values == {7, 42}
NoThread == 0
NoSink == 0

\* make(chan T, n): sink s is a channel of capacity s - 1, so the model has
\* an unbuffered sink, a one-slot sink (as in the tests) and larger ones.
Cap(s) == s - 1

VARIABLES
    lk,         \* Channel.lk: the thread holding the mutex, or NoThread
    closed,     \* Channel.closed
    listeners,  \* Channel.listeners: sequence of sinks
    last,       \* Channel.last
    buf,        \* per sink: the values queued in the Go channel
    nclose,     \* per sink: how many times close() was called on it
    waiting,    \* per sink: its consumer is blocked in a receive
    recvd,      \* per sink: the values its consumer has received
    pc,         \* per thread: position
    arg,        \* per thread: the call in progress
    idx,        \* per thread: Publish's loop index i (1-based)
    pre,        \* per thread: the state seen when the mutex was taken
    att,        \* per thread: Publish's delivery attempts so far, in order
    ret,        \* per thread: the values the call returns
    caps,       \* the closers returned by Subscribe so far
    sent,       \* history, per sink: every value the Channel placed in it
    published,  \* history: the arguments of the completed Publish bodies
    removed,    \* history, per sink: how it left the registry
    regAt,      \* history, per sink: Len(published) when it was registered
    snapshot,   \* history, per sink: the value Subscribe returned for it
    closeDone   \* history: a Close() call has returned

chanVars == <<buf, nclose, waiting, recvd, sent>>
coreVars == <<closed, listeners, last>>
histVars == <<published, removed, regAt, snapshot, closeDone>>
localVars == <<pc, arg, idx, pre, att, ret>>
vars == <<lk, closed, listeners, last, buf, nclose, waiting, recvd, pc, arg,
          idx, pre, att, ret, caps, sent, published, removed, regAt, snapshot,
          closeDone>>

\* ------------------------------------------------------------- helpers
Range(f) == {f[i] : i \in DOMAIN f}

NoCap == [ch |-> NoSink, noop |-> TRUE]
NoArg == [name |-> "none", ch |-> NoSink, val |-> Zero]
NoRet == [val |-> Zero, closed |-> FALSE, panic |-> FALSE, closer |-> NoCap]
NoPre == [ls |-> <<>>, last |-> Zero, closed |-> FALSE, sent |-> <<>>,
          nclose |-> <<>>, regAt |-> <<>>, spare |-> {}]

\* A non-blocking send `case ch <- val` can proceed: a receiver is blocked on
\* the channel, or the buffer has a free slot.
Spare(s) == waiting[s] \/ Len(buf[s]) < Cap(s)

IsOpen(s) == nclose[s] = 0

\* Mutant of RemoveAt: the last entry is dropped without first being moved
\* into slot i.
RemoveAt_DropLast(ls, i) == SubSeq(ls, 1, Len(ls) - 1)

\* Mutant of RemoveAt: the last entry is moved into slot i but the registry
\* is not shortened.
RemoveAt_NoShrink(ls, i) == [ls EXCEPT ![i] = ls[Len(ls)]]

\* c.listeners[i] = c.listeners[len-1]; c.listeners = c.listeners[:len-1]
RemoveAt(ls, i) == SubSeq([ls EXCEPT ![i] = ls[Len(ls)]], 1, Len(ls) - 1)

\* Mutant of IndexOf: a scan that finds nothing falls through to the last
\* index instead of reporting the sink absent.
IndexOf_Fallthrough(ls, s) ==
    IF s \in Range(ls)
      THEN CHOOSE i \in 1..Len(ls) : ls[i] = s /\ \A j \in 1..(i - 1) : ls[j] # s
      ELSE Len(ls)

\* First index of sink s in ls, 0 when absent (the `for i, listener := range`
\* scan of the closer).
IndexOf(ls, s) ==
    IF s \in Range(ls)
      THEN CHOOSE i \in 1..Len(ls) : ls[i] = s /\ \A j \in 1..(i - 1) : ls[j] # s
      ELSE 0

\* close(ch) on every sink of S: a blocked receiver wakes up with ok = false;
\* queued values stay in the buffer.
CloseChans(S) ==
    /\ nclose' = [s \in Sinks |-> IF s \in S THEN nclose[s] + 1 ELSE nclose[s]]
    /\ waiting' = [s \in Sinks |-> IF s \in S THEN FALSE ELSE waiting[s]]

\* ch <- val succeeding: handed to the blocked receiver, or queued.
SendChan(s, v) ==
    /\ sent' = [sent EXCEPT ![s] = Append(@, v)]
    /\ IF waiting[s]
         THEN /\ recvd' = [recvd EXCEPT ![s] = Append(@, v)]
              /\ waiting' = [waiting EXCEPT ![s] = FALSE]
              /\ buf' = buf
         ELSE /\ buf' = [buf EXCEPT ![s] = Append(@, v)]
              /\ UNCHANGED <<recvd, waiting>>

\* What an operation sees when it takes the mutex.  Nothing but the holder
\* of the mutex changes these until it is released; a Publish also notes
\* which registered sinks can accept a value at that moment.
Snap(a) ==
    [ls |-> listeners, last |-> last, closed |-> closed, sent |-> sent,
     nclose |-> nclose, regAt |-> regAt,
     spare |-> IF a.name = "Publish"
                 THEN {s \in Range(listeners) : Spare(s)} ELSE {}]

\* ---------------------------------------------------------------- Init
Init ==
    /\ lk = NoThread
    /\ closed = FALSE
    /\ listeners = <<>>
    /\ last = Zero
    /\ buf = [s \in Sinks |-> <<>>]
    /\ nclose = [s \in Sinks |-> 0]
    /\ waiting = [s \in Sinks |-> FALSE]
    /\ recvd = [s \in Sinks |-> <<>>]
    /\ pc = [t \in Threads |-> "idle"]
    /\ arg = [t \in Threads |-> NoArg]
    /\ idx = [t \in Threads |-> 0]
    /\ pre = [t \in Threads |-> NoPre]
    /\ att = [t \in Threads |-> <<>>]
    /\ ret = [t \in Threads |-> NoRet]
    /\ caps = {}
    /\ sent = [s \in Sinks |-> <<>>]
    /\ published = <<>>
    /\ removed = [s \in Sinks |-> "no"]
    /\ regAt = [s \in Sinks |-> -1]
    /\ snapshot = [s \in Sinks |-> Zero]
    /\ closeDone = FALSE

\* Mutant of Lock: the mutex is not waited for, so a call proceeds while
\* another operation is inside its critical section.
Lock_NoExclusion(t, a, to) ==
    /\ pc[t] = "idle"
    /\ lk' = t
    /\ pc' = [pc EXCEPT ![t] = to]
    /\ arg' = [arg EXCEPT ![t] = a]
    /\ idx' = [idx EXCEPT ![t] = 1]
    /\ pre' = [pre EXCEPT ![t] = Snap(a)]
    /\ UNCHANGED att

\* ------------------------------------------------------------- the calls
\* c.lk.Lock(): the first statement of every operation.  Thread t invokes
\* operation a and proceeds, to position `to`, once the mutex is free; until
\* then it is blocked.
Lock(t, a, to) ==
    /\ pc[t] = "idle"
    /\ lk = NoThread
    /\ lk' = t
    /\ pc' = [pc EXCEPT ![t] = to]
    /\ arg' = [arg EXCEPT ![t] = a]
    /\ idx' = [idx EXCEPT ![t] = 1]
    /\ pre' = [pre EXCEPT ![t] = Snap(a)]
    /\ UNCHANGED att

\* Mutant of SubscribeClosed: on a closed Channel the sink is registered all
\* the same and gets a closer bound to it.
SubscribeClosed_Registers(t, ch) ==
    /\ listeners' = Append(listeners, ch)
    /\ ret' = [ret EXCEPT ![t] =
          [val |-> last, closed |-> FALSE, panic |-> FALSE,
           closer |-> [ch |-> ch, noop |-> FALSE]]]
    /\ UNCHANGED <<chanVars, regAt, snapshot>>

\* Subscribe on a closed Channel, lines 27-30: the last value and a closer
\* that does nothing (runtime.Gosched() changes no state).
SubscribeClosed(t, ch) ==
    /\ ret' = [ret EXCEPT ![t] = [NoRet EXCEPT !.val = last]]
    /\ UNCHANGED <<listeners, regAt, snapshot, chanVars>>

\* Subscribe of a sink found in the registry, lines 32-36: panic.
SubscribeDuplicate(t, ch) ==
    /\ ret' = [ret EXCEPT ![t] = [NoRet EXCEPT !.panic = TRUE]]
    /\ UNCHANGED <<listeners, regAt, snapshot, chanVars>>

\* Mutant of SubscribeNew: the last value is also replayed into the new
\* subscriber's sink when it has room.
SubscribeNew_ReplayLast(t, ch) ==
    /\ listeners' = Append(listeners, ch)
    /\ ret' = [ret EXCEPT ![t] =
          [val |-> last, closed |-> FALSE, panic |-> FALSE,
           closer |-> [ch |-> ch, noop |-> FALSE]]]
    /\ regAt' = [regAt EXCEPT ![ch] = Len(published)]
    /\ snapshot' = [snapshot EXCEPT ![ch] = last]
    /\ IF published # <<>> /\ Spare(ch)
         THEN SendChan(ch, last) /\ UNCHANGED nclose
         ELSE UNCHANGED chanVars

\* Mutant of SubscribeNew: the last value is read before the mutex is taken,
\* so it may be any value that was cached at some earlier time.
SubscribeNew_UnlockedRead(t, ch) ==
    \E v \in {Zero} \cup Range(published) :
        /\ listeners' = Append(listeners, ch)
        /\ ret' = [ret EXCEPT ![t] =
              [val |-> v, closed |-> FALSE, panic |-> FALSE,
               closer |-> [ch |-> ch, noop |-> FALSE]]]
        /\ regAt' = [regAt EXCEPT ![ch] = Len(published)]
        /\ snapshot' = [snapshot EXCEPT ![ch] = v]
        /\ UNCHANGED chanVars

\* Subscribe of a new sink, lines 37-39: append it, return the last value and
\* the closer bound to ch.
SubscribeNew(t, ch) ==
    /\ listeners' = Append(listeners, ch)
    /\ ret' = [ret EXCEPT ![t] =
          [val |-> last, closed |-> FALSE, panic |-> FALSE,
           closer |-> [ch |-> ch, noop |-> FALSE]]]
    /\ regAt' = [regAt EXCEPT ![ch] = Len(published)]
    /\ snapshot' = [snapshot EXCEPT ![ch] = last]
    /\ UNCHANGED chanVars

\* Mutant of Subscribe: the registry is not scanned for the sink.
Subscribe_NoDupCheck(t, ch) ==
    /\ closed \/ IsOpen(ch)
    /\ Lock(t, [NoArg EXCEPT !.name = "Subscribe", !.ch = ch], "Unlock")
    /\ IF closed THEN SubscribeClosed(t, ch) ELSE SubscribeNew(t, ch)
    /\ UNCHANGED <<closed, last, caps, published, removed, closeDone>>

\* Mutant of Subscribe: the closed flag is not examined.
Subscribe_NoClosedCheck(t, ch) ==
    /\ closed \/ IsOpen(ch)
    /\ Lock(t, [NoArg EXCEPT !.name = "Subscribe", !.ch = ch], "Unlock")
    /\ IF ch \in Range(listeners)
         THEN SubscribeDuplicate(t, ch)
         ELSE SubscribeNew(t, ch)
    /\ UNCHANGED <<closed, last, caps, published, removed, closeDone>>

\* Subscribe(ch), lines 23-39, up to the deferred Unlock.  On an open Channel
\* the caller passes an open channel.
Subscribe(t, ch) ==
    /\ closed \/ IsOpen(ch)
    /\ Lock(t, [NoArg EXCEPT !.name = "Subscribe", !.ch = ch], "Unlock")
    /\ IF closed
         THEN SubscribeClosed(t, ch)
         ELSE IF ch \in Range(listeners)
           THEN SubscribeDuplicate(t, ch)
           ELSE SubscribeNew(t, ch)
    /\ UNCHANGED <<closed, last, caps, published, removed, closeDone>>

\* Mutant of Closer: the sink is closed whether or not the scan finds it in
\* the registry.
Closer_CloseAlways(t, c) ==
    /\ c \in caps
    /\ ~c.noop
    /\ Lock(t, [NoArg EXCEPT !.name = "Closer", !.ch = c.ch], "Unlock")
    /\ LET i == IndexOf(listeners, c.ch) IN
       /\ listeners' = IF i # 0 THEN RemoveAt(listeners, i) ELSE listeners
       /\ CloseChans({c.ch})
       /\ removed' = [removed EXCEPT ![c.ch] = "closer"]
    /\ UNCHANGED <<closed, last, buf, recvd, sent, ret, caps, published,
                   regAt, snapshot, closeDone>>

\* Mutant of Closer: after the swap the entry closed is the one read back
\* from slot i, which is the entry moved there from the end.
Closer_CloseMoved(t, c) ==
    /\ c \in caps
    /\ ~c.noop
    /\ Lock(t, [NoArg EXCEPT !.name = "Closer", !.ch = c.ch], "Unlock")
    /\ LET i == IndexOf(listeners, c.ch) IN
       IF i # 0
         THEN /\ listeners' = RemoveAt(listeners, i)
              /\ CloseChans({listeners[Len(listeners)]})
              /\ removed' = [removed EXCEPT ![listeners[Len(listeners)]] = "closer"]
         ELSE UNCHANGED <<listeners, nclose, waiting, removed>>
    /\ UNCHANGED <<closed, last, buf, recvd, sent, ret, caps, published,
                   regAt, snapshot, closeDone>>

\* The closer of lines 39-51, returned by a Subscribe that registered c.ch.
Closer(t, c) ==
    /\ c \in caps
    /\ ~c.noop
    /\ Lock(t, [NoArg EXCEPT !.name = "Closer", !.ch = c.ch], "Unlock")
    /\ LET i == IndexOf(listeners, c.ch) IN
       IF i # 0
         THEN /\ listeners' = RemoveAt(listeners, i)
              /\ CloseChans({c.ch})
              /\ removed' = [removed EXCEPT ![c.ch] = "closer"]
         ELSE UNCHANGED <<listeners, nclose, waiting, removed>>
    /\ UNCHANGED <<closed, last, buf, recvd, sent, ret, caps, published,
                   regAt, snapshot, closeDone>>

\* The closer `func() {}` of line 29, returned by Subscribe on a closed
\* Channel: invoking it takes no mutex and touches nothing.
NoopCloser(t, c) ==
    /\ pc[t] = "idle"
    /\ c \in caps
    /\ c.noop
    /\ UNCHANGED vars

\* IsClosed, lines 54-58.
IsClosed(t) ==
    /\ Lock(t, [NoArg EXCEPT !.name = "IsClosed"], "Unlock")
    /\ ret' = [ret EXCEPT ![t] = [NoRet EXCEPT !.closed = closed]]
    /\ UNCHANGED <<coreVars, chanVars, caps, histVars>>

\* Mutant of Close: the sinks are closed and the flag set, but the registry
\* is not emptied.
Close_KeepListeners(t) ==
    /\ Lock(t, [NoArg EXCEPT !.name = "Close"], "Unlock")
    /\ closed' = TRUE
    /\ CloseChans(Range(listeners))
    /\ removed' = [s \in Sinks |->
                     IF s \in Range(listeners) THEN "close" ELSE removed[s]]
    /\ UNCHANGED <<listeners, last, buf, recvd, sent, ret, caps, published,
                   regAt, snapshot, closeDone>>

\* Mutant of Close: retiring the Channel also resets the cached last value.
Close_ClearsLast(t) ==
    /\ Lock(t, [NoArg EXCEPT !.name = "Close"], "Unlock")
    /\ closed' = TRUE
    /\ CloseChans(Range(listeners))
    /\ listeners' = <<>>
    /\ last' = Zero
    /\ removed' = [s \in Sinks |->
                     IF s \in Range(listeners) THEN "close" ELSE removed[s]]
    /\ UNCHANGED <<buf, recvd, sent, ret, caps, published, regAt,
                   snapshot, closeDone>>

\* Close, lines 65-73.
Close(t) ==
    /\ Lock(t, [NoArg EXCEPT !.name = "Close"], "Unlock")
    /\ closed' = TRUE
    /\ CloseChans(Range(listeners))
    /\ listeners' = <<>>
    /\ removed' = [s \in Sinks |->
                     IF s \in Range(listeners) THEN "close" ELSE removed[s]]
    /\ UNCHANGED <<last, buf, recvd, sent, ret, caps, published, regAt,
                   snapshot, closeDone>>

\* Last, lines 75-79.
Last(t) ==
    /\ Lock(t, [NoArg EXCEPT !.name = "Last"], "Unlock")
    /\ ret' = [ret EXCEPT ![t] = [NoRet EXCEPT !.val = last]]
    /\ UNCHANGED <<coreVars, chanVars, caps, histVars>>

\* Publish(val) taking the mutex, lines 81-83.
Publish(t, v) ==
    /\ Len(published) < MaxPublish
    /\ Lock(t, [NoArg EXCEPT !.name = "Publish", !.val = v], "Publish")
    /\ UNCHANGED <<coreVars, chanVars, ret, caps, histVars>>

\* Mutant of Deliver: after a successful send the loop index skips an entry.
Deliver_SkipNext(t, ch) ==
    /\ SendChan(ch, arg[t].val)
    /\ idx' = [idx EXCEPT ![t] = @ + 2]
    /\ UNCHANGED <<listeners, nclose, removed>>

\* `case ch <- val: i++`, lines 87-88.
Deliver(t, ch) ==
    /\ SendChan(ch, arg[t].val)
    /\ idx' = [idx EXCEPT ![t] = @ + 1]
    /\ UNCHANGED <<listeners, nclose, removed>>

\* Mutant of Evict: the send is a plain `ch <- val` without a default branch,
\* so on a full sink the loop waits for the consumer to make room.
Evict_Block(t, ch) ==
    /\ FALSE
    /\ UNCHANGED <<listeners, nclose, waiting, removed, idx, buf, recvd, sent>>

\* Mutant of Evict: a full sink is passed over, the value dropped for it, and
\* it stays registered and open.
Evict_KeepFull(t, ch) ==
    /\ idx' = [idx EXCEPT ![t] = @ + 1]
    /\ UNCHANGED <<listeners, nclose, waiting, removed, buf, recvd, sent>>

\* Mutant of Evict: the loop index advances after an eviction as well, past
\* the entry that was moved into the evicted slot.
Evict_SkipSwapped(t, ch) ==
    /\ CloseChans({ch})
    /\ listeners' = RemoveAt(listeners, idx[t])
    /\ removed' = [removed EXCEPT ![ch] = "evict"]
    /\ idx' = [idx EXCEPT ![t] = @ + 1]
    /\ UNCHANGED <<buf, recvd, sent>>

\* Mutant of Evict: the full sink is taken out of the registry but is not
\* closed.
Evict_NoClose(t, ch) ==
    /\ listeners' = RemoveAt(listeners, idx[t])
    /\ removed' = [removed EXCEPT ![ch] = "evict"]
    /\ UNCHANGED <<idx, buf, recvd, sent, nclose, waiting>>

\* `default:`, lines 89-94: close the sink, move the last entry into its slot
\* and shorten the registry; i stays, so the moved entry is tried next.
Evict(t, ch) ==
    /\ CloseChans({ch})
    /\ listeners' = RemoveAt(listeners, idx[t])
    /\ removed' = [removed EXCEPT ![ch] = "evict"]
    /\ UNCHANGED <<idx, buf, recvd, sent>>

\* One iteration of Publish's loop, lines 84-96.  att notes the sink tried
\* and whether it could accept the value when it was tried.
PublishLoop(t) ==
    /\ pc[t] = "Publish"
    /\ lk = t
    /\ idx[t] <= Len(listeners)
    /\ LET ch == listeners[idx[t]] IN
       /\ att' = [att EXCEPT ![t] = Append(@, [ch |-> ch, spare |-> Spare(ch)])]
       /\ IF Spare(ch) THEN Deliver(t, ch) ELSE Evict(t, ch)
    /\ UNCHANGED <<lk, closed, last, pc, arg, pre, ret, caps, published,
                   regAt, snapshot, closeDone>>

\* Mutant of PublishLast: the value is cached only when a subscriber is left
\* to have received it.
PublishLast_OnlyIfListeners(t) ==
    /\ pc[t] = "Publish"
    /\ lk = t
    /\ idx[t] > Len(listeners)
    /\ last' = IF listeners # <<>> THEN arg[t].val ELSE last
    /\ published' = Append(published, arg[t].val)
    /\ pc' = [pc EXCEPT ![t] = "Unlock"]
    /\ UNCHANGED <<lk, closed, listeners, chanVars, arg, idx, pre, att, ret,
                   caps, removed, regAt, snapshot, closeDone>>

\* Mutant of PublishLast: the value is not cached when the call evicted a
\* subscriber.
PublishLast_KeepOnEvict(t) ==
    /\ pc[t] = "Publish"
    /\ lk = t
    /\ idx[t] > Len(listeners)
    /\ last' = IF listeners = pre[t].ls THEN arg[t].val ELSE last
    /\ published' = Append(published, arg[t].val)
    /\ pc' = [pc EXCEPT ![t] = "Unlock"]
    /\ UNCHANGED <<lk, closed, listeners, chanVars, arg, idx, pre, att, ret,
                   caps, removed, regAt, snapshot, closeDone>>

\* c.last = val, line 98.
PublishLast(t) ==
    /\ pc[t] = "Publish"
    /\ lk = t
    /\ idx[t] > Len(listeners)
    /\ last' = arg[t].val
    /\ published' = Append(published, arg[t].val)
    /\ pc' = [pc EXCEPT ![t] = "Unlock"]
    /\ UNCHANGED <<lk, closed, listeners, chanVars, arg, idx, pre, att, ret,
                   caps, removed, regAt, snapshot, closeDone>>

\* The deferred c.lk.Unlock(), then the return to the caller (a panic of
\* Subscribe unwinds through the same deferred Unlock).
Unlock(t) ==
    /\ pc[t] = "Unlock"
    /\ lk = t
    /\ lk' = NoThread
    /\ pc' = [pc EXCEPT ![t] = "idle"]
    /\ caps' = IF arg[t].name = "Subscribe" /\ ~ret[t].panic
                 THEN caps \cup {ret[t].closer} ELSE caps
    /\ closeDone' = (closeDone \/ arg[t].name = "Close")
    /\ arg' = [arg EXCEPT ![t] = NoArg]
    /\ idx' = [idx EXCEPT ![t] = 0]
    /\ pre' = [pre EXCEPT ![t] = NoPre]
    /\ att' = [att EXCEPT ![t] = <<>>]
    /\ ret' = [ret EXCEPT ![t] = NoRet]
    /\ UNCHANGED <<coreVars, chanVars, published, removed, regAt, snapshot>>

\* ------------------------------------------------------------- consumers
\* The consumer of sink s executes `v, ok := <-ch`, once its sink has been
\* registered: it takes the oldest queued value; on an empty open channel it
\* blocks until a send or a close; on an empty closed channel it gets
\* ok = false, which changes nothing.
Recv(s) ==
    /\ regAt[s] >= 0
    /\ ~waiting[s]
    /\ IF buf[s] # <<>>
         THEN /\ recvd' = [recvd EXCEPT ![s] = Append(@, Head(buf[s]))]
              /\ buf' = [buf EXCEPT ![s] = Tail(@)]
              /\ UNCHANGED waiting
         ELSE /\ waiting' = [waiting EXCEPT ![s] = IsOpen(s)]
              /\ UNCHANGED <<buf, recvd>>
    /\ UNCHANGED <<lk, coreVars, nclose, sent, localVars, caps, histVars>>

\* ---------------------------------------------------------------- Next
Next ==
    \/ \E t \in Threads, ch \in Sinks : Subscribe(t, ch)
    \/ \E t \in Threads, c \in caps : Closer(t, c)
    \/ \E t \in Threads, c \in caps : NoopCloser(t, c)
    \/ \E t \in Threads : IsClosed(t)
    \/ \E t \in Threads : Close(t)
    \/ \E t \in Threads : Last(t)
    \/ \E t \in Threads, v \in Values : Publish(t, v)
    \/ \E t \in Threads : PublishLoop(t)
    \/ \E t \in Threads : PublishLast(t)
    \/ \E t \in Threads : Unlock(t)
    \/ \E s \in Sinks : Recv(s)

Spec == Init /\ [][Next]_vars

\* A thread that holds the mutex is runnable and waits for nothing (every
\* select of Publish has a default branch), so the scheduler eventually runs
\* its next step.  Nothing is assumed of the consumers or of new calls.
\* Each such step changes the thread's position: its pc, its loop index or,
\* on an eviction, the registry.
Step(t) == PublishLoop(t) \/ PublishLast(t) \/ Unlock(t)

FairSpec ==
    Init /\ [][Next]_vars /\ \A t \in Threads : WF_<<pc, idx, listeners>>(Step(t))

\* ======================================================================
\* Properties.  An operation is observed when its body is done and its
\* deferred Unlock is about to run: no other operation has run since it
\* took the mutex, and pre[t] is what it found.
\* ======================================================================

\* Thread t is about to return from operation `name`.
AtReturn(t, name) == pc[t] = "Unlock" /\ arg[t].name = name

\* Thread t is inside Publish (in the loop or about to return).
InPublish(t) == lk = t /\ arg[t].name = "Publish"

\* The argument of the most recently completed Publish, or the zero value.
LastOf(p) == IF p = <<>> THEN Zero ELSE p[Len(p)]

\* Everything placed in sink s has been received or is still queued, in order.
Intact(s) == recvd[s] \o buf[s] = sent[s]

\* C1: when Publish(v) is about to return and every sink that was registered
\* when it started had spare capacity then, the registry is unchanged and
\* each of those sinks is open and holds its earlier contents followed by
\* exactly one v.
C1_PublishDeliversToAll ==
    \A t \in Threads :
        (AtReturn(t, "Publish") /\ pre[t].spare = Range(pre[t].ls))
            => /\ listeners = pre[t].ls
               /\ \A s \in Range(pre[t].ls) :
                    /\ sent[s] = Append(pre[t].sent[s], arg[t].val)
                    /\ Intact(s)
                    /\ IsOpen(s)

\* C1 witness: a Publish returns after delivering to every sink of the model,
\* each of which already held an earlier value.
C1_Witness ==
    \E t \in Threads :
        /\ AtReturn(t, "Publish")
        /\ Range(pre[t].ls) = Sinks
        /\ pre[t].spare = Sinks
        /\ \A s \in Sinks : pre[t].sent[s] # <<>>

\* C2: a sink that had no spare capacity when Publish(v) tried it is, from
\* that step on, out of the registry and closed (once), and was not given v;
\* what was queued in it is still there to be received; and a Publish that
\* runs after the eviction does not find it in the registry, does not try it
\* and places nothing in it.
C2_FullSinkEvicted ==
    \A t \in Threads :
        InPublish(t) =>
            /\ \A i \in 1..Len(att[t]) :
                 LET s == att[t][i].ch IN
                 ~att[t][i].spare =>
                    /\ s \notin Range(listeners)
                    /\ nclose[s] = 1
                    /\ removed[s] = "evict"
                    /\ sent[s] = pre[t].sent[s]
                    /\ Intact(s)
            /\ \A s \in Sinks :
                 (removed[s] = "evict" /\ pre[t].nclose[s] > 0) =>
                    /\ s \notin Range(pre[t].ls)
                    /\ \A i \in 1..Len(att[t]) : att[t][i].ch # s
                    /\ sent[s] = pre[t].sent[s]
                    /\ Intact(s)

\* C2 witness: a Publish is about to return having evicted a sink whose
\* buffer was full of earlier values, still queued in it.
C2_Witness ==
    \E t \in Threads :
        /\ AtReturn(t, "Publish")
        /\ \E i \in 1..Len(att[t]) :
             /\ ~att[t][i].spare
             /\ buf[att[t][i].ch] # <<>>

\* C3: a Subscribe of a sink that is already registered panics: registry,
\* last value and closed flag are exactly as found, no closer is returned,
\* and the mutex is released on the way out (a thread that is not inside an
\* operation never holds it).
C3_DuplicateSubscribePanics ==
    /\ \A t \in Threads :
         (AtReturn(t, "Subscribe") /\ arg[t].ch \in Range(pre[t].ls))
            => /\ ret[t].panic
               /\ ret[t].closer = NoCap
               /\ listeners = pre[t].ls
               /\ last = pre[t].last
               /\ closed = pre[t].closed
               /\ nclose = pre[t].nclose
    /\ \A t \in Threads : pc[t] = "idle" => lk # t

\* C3 witness: a duplicate Subscribe is unwinding, with another sink
\* registered as well and a value published.
C3_Witness ==
    \E t \in Threads :
        /\ AtReturn(t, "Subscribe")
        /\ arg[t].ch \in Range(pre[t].ls)
        /\ ret[t].panic
        /\ Len(listeners) = 2
        /\ published # <<>>

\* C4: Last() returns the zero value while nothing was published and
\* otherwise the argument of the most recently completed Publish, and the
\* cached value equals it in every state.
C4_LastIsLatestPublish ==
    /\ last = LastOf(published)
    /\ \A t \in Threads : AtReturn(t, "Last") => ret[t].val = LastOf(published)

\* C4 witness: Last() returns the second published value although the
\* Publish calls evicted a subscriber.
C4_Witness ==
    \E t \in Threads :
        /\ AtReturn(t, "Last")
        /\ Len(published) = 2
        /\ published[1] # published[2]
        /\ ret[t].val = published[2]
        /\ \E s \in Sinks : removed[s] = "evict"
        /\ listeners = <<>>

\* C5: a Subscribe of an unregistered sink on an open Channel returns the
\* latest published value, appends the sink to the registry and places
\* nothing in the sink.
C5_SubscribeReturnsSnapshot ==
    \A t \in Threads :
        (AtReturn(t, "Subscribe") /\ ~pre[t].closed
            /\ arg[t].ch \notin Range(pre[t].ls))
            => LET ch == arg[t].ch IN
               /\ ~ret[t].panic
               /\ ret[t].val = LastOf(published)
               /\ ret[t].closer = [ch |-> ch, noop |-> FALSE]
               /\ listeners = Append(pre[t].ls, ch)
               /\ sent[ch] = <<>>
               /\ buf[ch] = <<>>
               /\ recvd[ch] = <<>>
               /\ IsOpen(ch)

\* C5 witness: a sink is registered after a Publish and gets that value as
\* its snapshot.
C5_Witness ==
    \E t \in Threads :
        /\ AtReturn(t, "Subscribe")
        /\ ~ret[t].panic
        /\ ~pre[t].closed
        /\ published # <<>>
        /\ ret[t].val = 42
        /\ Len(listeners) = 2

\* C6: a closer invoked while its sink is registered removes exactly that
\* sink from the registry and closes it once, leaving what is queued in it in
\* place; a Publish that runs afterwards does not find the sink in the
\* registry, does not try it and places nothing in it.
C6_CloserRemovesAndCloses ==
    \A t \in Threads :
        /\ (AtReturn(t, "Closer") /\ arg[t].ch \in Range(pre[t].ls))
              => LET ch == arg[t].ch IN
                 /\ Range(listeners) = Range(pre[t].ls) \ {ch}
                 /\ Len(listeners) = Len(pre[t].ls) - 1
                 /\ nclose[ch] = 1
                 /\ removed[ch] = "closer"
                 /\ sent[ch] = pre[t].sent[ch]
                 /\ Intact(ch)
        /\ InPublish(t) =>
              \A s \in Sinks :
                 removed[s] = "closer" =>
                    /\ s \notin Range(pre[t].ls)
                    /\ \A i \in 1..Len(att[t]) : att[t][i].ch # s
                    /\ sent[s] = pre[t].sent[s]
                    /\ Intact(s)

\* C6 witness: a closer returns after removing the first of two registered
\* sinks, which still has a value queued.
C6_Witness ==
    \E t \in Threads :
        /\ AtReturn(t, "Closer")
        /\ Len(pre[t].ls) = 2
        /\ arg[t].ch = pre[t].ls[1]
        /\ buf[arg[t].ch] # <<>>

\* C7: a closer invoked when its sink is not in the registry closes nothing
\* and leaves the registry, the last value and the closed flag as found.
C7_CloserIdempotent ==
    \A t \in Threads :
        (AtReturn(t, "Closer") /\ arg[t].ch \notin Range(pre[t].ls))
            => /\ ~ret[t].panic
               /\ listeners = pre[t].ls
               /\ last = pre[t].last
               /\ closed = pre[t].closed
               /\ nclose = pre[t].nclose
               /\ \A s \in Sinks : nclose[s] <= 1

\* C7 witness: the closer of a sink that Publish evicted returns while
\* another sink is registered.
C7_Witness ==
    \E t \in Threads :
        /\ AtReturn(t, "Closer")
        /\ arg[t].ch \notin Range(pre[t].ls)
        /\ removed[arg[t].ch] = "evict"
        /\ listeners # <<>>

\* C8: when Close() is about to return the Channel is closed, the registry
\* is empty and every sink that was registered is closed; an IsClosed() that
\* runs after a Close() has returned returns true.
C8_CloseClosesEverything ==
    \A t \in Threads :
        /\ AtReturn(t, "Close")
              => /\ closed
                 /\ listeners = <<>>
                 /\ \A s \in Range(pre[t].ls) : nclose[s] = 1
        /\ (AtReturn(t, "IsClosed") /\ closeDone) => ret[t].closed

\* C8 witness: IsClosed() returns after a Close() that found sinks
\* registered.
C8_Witness ==
    \E t \in Threads :
        /\ AtReturn(t, "IsClosed")
        /\ closeDone
        /\ \A s \in Sinks : removed[s] = "close"

\* C9: a Subscribe on a closed Channel, whatever the sink, does not panic,
\* leaves the registry empty, closes and sends on no sink, returns the latest
\* published value and returns the closer that does nothing (NoCap, which
\* NoopCloser invokes without changing any variable).
C9_SubscribeOnClosed ==
    \A t \in Threads :
        (AtReturn(t, "Subscribe") /\ pre[t].closed)
            => /\ ~ret[t].panic
               /\ ret[t].val = LastOf(published)
               /\ ret[t].closer = NoCap
               /\ listeners = <<>>
               /\ pre[t].ls = <<>>
               /\ nclose = pre[t].nclose
               /\ sent = pre[t].sent
               /\ regAt[arg[t].ch] = pre[t].regAt[arg[t].ch]

\* C9 witness: Subscribe on a closed Channel returns a published value for
\* a sink that was never registered, after the no-op closer was handed out.
C9_Witness ==
    \E t \in Threads :
        /\ AtReturn(t, "Subscribe")
        /\ pre[t].closed
        /\ ret[t].val = 42
        /\ regAt[arg[t].ch] = -1
        /\ NoCap \in caps

\* The scenario of C10 for sink s, seen when the evicting Publish by thread t
\* is about to return: Publish(42) came first, then s (capacity >= 1) was
\* registered, then Publish(7); s was never drained and this Publish found it
\* registered and removed it.
Scenario(t, s) ==
    /\ AtReturn(t, "Publish")
    /\ s \in Range(pre[t].ls)
    /\ s \notin Range(listeners)
    /\ Cap(s) >= 1
    /\ regAt[s] = 1
    /\ Len(published) >= 3
    /\ published[1] = 42
    /\ published[2] = 7
    /\ recvd[s] = <<>>

\* C10 as stated: in the scenario Register returned 42, the sink got 7, it
\* is evicted and closed, and Last() is still 7 after the evicting Publish.
C10_AsStated ==
    \A t \in Threads, s \in Sinks :
        Scenario(t, s) =>
            /\ snapshot[s] = 42
            /\ Head(sent[s]) = 7
            /\ nclose[s] = 1
            /\ last = 7

\* C10 amended: in the scenario Register returned 42, the sink holds exactly
\* the values published between its registration and the evicting Publish,
\* 7 first, as many as its capacity; it is evicted and closed and did not get
\* the evicting value; and the cached last value is the argument of the
\* evicting Publish.  An evicted sink that was never drained holds exactly
\* its capacity ever after.
C10_ScenarioAmended ==
    /\ \A t \in Threads, s \in Sinks :
         Scenario(t, s) =>
            /\ snapshot[s] = 42
            /\ sent[s] = SubSeq(published, 2, Len(published) - 1)
            /\ Head(sent[s]) = 7
            /\ buf[s] = sent[s]
            /\ Len(sent[s]) = Cap(s)
            /\ nclose[s] = 1
            /\ removed[s] = "evict"
            /\ last = arg[t].val
            /\ last = published[Len(published)]
    /\ \A s \in Sinks :
         (removed[s] = "evict" /\ recvd[s] = <<>>) => Len(sent[s]) = Cap(s)

\* C10 witness: the scenario has run and the evicting Publish published 42.
C10_Witness ==
    \E t \in Threads, s \in Sinks : Scenario(t, s) /\ arg[t].val = 42

\* C11: no operation blocks.  The thread that holds the mutex always has a
\* step it can take, whatever the consumers do; when the mutex is free any
\* idle thread can take it; and under fair scheduling every operation that
\* has started returns and the mutex is released again.
C11_NoOperationBlocks ==
    /\ [](\A t \in Threads :
            /\ lk = t => ENABLED Step(t)
            /\ (lk = NoThread /\ pc[t] = "idle") => ENABLED IsClosed(t))
    /\ \A t \in Threads : (pc[t] # "idle") ~> (pc[t] = "idle")
    /\ (lk # NoThread) ~> (lk = NoThread)

\* C11 witness: a Publish is about to return after finding every sink of the
\* model registered and full, none of which was ever read by its consumer.
C11_Witness ==
    \E t \in Threads :
        /\ AtReturn(t, "Publish")
        /\ Range(pre[t].ls) = Sinks
        /\ listeners = <<>>
        /\ \A s \in Sinks : recvd[s] = <<>> /\ ~waiting[s]

\* The sinks thread t's Publish has tried so far.
Tried(t) == {att[t][i].ch : i \in 1..Len(att[t])}

\* C12: the operations run one at a time.  At most one thread is inside an
\* operation, and it holds the mutex; what a Publish in progress has not
\* itself done is as it was when the Publish took the mutex (nothing was
\* registered, published or closed by another call in the middle of its
\* pass); two sinks get the values they both get in the same order, the
\* order in which the Publish calls took the mutex; and whenever the mutex
\* is free the cached last value is that of the latest Publish in that order.
C12_Linearized ==
    /\ \A t \in Threads : pc[t] # "idle" <=> lk = t
    /\ \A t \in Threads :
         (lk = t /\ pc[t] = "Publish") =>
            /\ closed = pre[t].closed
            /\ last = pre[t].last
            /\ Range(listeners) \subseteq Range(pre[t].ls)
            /\ \A s \in Range(pre[t].ls) \ Tried(t) :
                 /\ s \in Range(listeners)
                 /\ sent[s] = pre[t].sent[s]
                 /\ nclose[s] = pre[t].nclose[s]
    /\ \A s1, s2 \in Sinks :
         \A i \in 1..Len(sent[s1]), j \in 1..Len(sent[s2]) :
            regAt[s1] + i = regAt[s2] + j => sent[s1][i] = sent[s2][j]
    /\ lk = NoThread => last = LastOf(published)

\* C12 witness: the mutex is free after two Publish calls with different
\* values, and two sinks that were registered across both hold the two
\* values, in the same order.
C12_Witness ==
    /\ lk = NoThread
    /\ Len(published) = 2
    /\ published[1] # published[2]
    /\ \A s \in Sinks : regAt[s] = 0 /\ sent[s] = published

\* C13: closed never goes from true to false; whenever closed is true the
\* registry is empty, whatever has run since; and a Close() that found the
\* Channel closed is about to return with no sink closed by it, the registry
\* still empty and the last value untouched.
C13_ClosedAbsorbing ==
    /\ [][closed => closed']_vars
    /\ [](closed => listeners = <<>>)
    /\ [](closeDone => closed)
    /\ [](\A t \in Threads :
            (AtReturn(t, "Close") /\ pre[t].closed) =>
                /\ closed
                /\ nclose = pre[t].nclose
                /\ sent = pre[t].sent
                /\ listeners = <<>>
                /\ last = pre[t].last)

\* C13 witness: a second Close() is about to return on a Channel whose first
\* Close() closed a sink and on which a Subscribe has run since.
C13_Witness ==
    \E t \in Threads :
        /\ AtReturn(t, "Close")
        /\ pre[t].closed
        /\ closeDone
        /\ \E s \in Sinks : removed[s] = "close"
        /\ \E c \in caps : c.noop

\* C14: no sink is in the registry twice.
C14_NoDuplicateSink ==
    \A i, j \in 1..Len(listeners) : listeners[i] = listeners[j] => i = j

\* C14 witness: an eviction by Publish, or a closer, has removed the first
\* entry of a full registry and moved the last entry into its slot.
C14_Witness ==
    \E t \in Threads :
        /\ lk = t
        /\ arg[t].name \in {"Publish", "Closer"}
        /\ Len(pre[t].ls) = NumSinks
        /\ listeners = <<pre[t].ls[NumSinks]>>
        /\ removed[pre[t].ls[1]] = IF arg[t].name = "Publish"
                                       THEN "evict" ELSE "closer"

\* C15: the cached last value changes only in the step of a Publish that
\* follows its loop, and becomes that Publish's argument.  So every other
\* operation is about to return with the last value it found, a Publish that
\* is still in its loop has not touched it even if it has evicted every
\* subscriber, it is never back to the zero value once a Publish has
\* returned, and a Publish is about to return with its argument cached, on a
\* closed Channel as well.
C15_OnlyPublishChangesLast ==
    /\ [][last' # last =>
            \E t \in Threads :
                /\ lk = t
                /\ pc[t] = "Publish"
                /\ pc'[t] = "Unlock"
                /\ last' = arg[t].val]_vars
    /\ [](\A t \in Threads :
            /\ (lk = t /\ pc[t] = "Unlock" /\ arg[t].name # "Publish")
                   => last = pre[t].last
            /\ (lk = t /\ pc[t] = "Publish") => last = pre[t].last
            /\ AtReturn(t, "Publish") => last = arg[t].val)
    /\ [](published # <<>> => last \in Range(published))

\* C15 witness: a Publish on a closed Channel is about to return having
\* replaced the last value that the Close() before it had left in place.
C15_Witness ==
    \E t \in Threads :
        /\ AtReturn(t, "Publish")
        /\ pre[t].closed
        /\ pre[t].last # Zero
        /\ last # pre[t].last
        /\ \E s \in Sinks : removed[s] = "close"

\* The sinks thread t's Publish found able to accept the value when it tried
\* them.
Accepted(t) == {att[t][i].ch : i \in {j \in 1..Len(att[t]) : att[t][j].spare}}

\* C16: a Publish tries no sink twice and only sinks that were registered
\* when it started; a sink it found with spare capacity holds its earlier
\* contents and the value once more and is still registered and open, a sink
\* it found full is evicted and holds what it held, and a sink it has not yet
\* tried is untouched.  When the Publish is about to return it has tried
\* every sink that was registered when it started, and the registry is
\* exactly the sinks it found with spare capacity, among them every sink that
\* had spare capacity when the call started.
C16_OneAttemptPerSink ==
    \A t \in Threads :
        InPublish(t) =>
            /\ \A i, j \in 1..Len(att[t]) : att[t][i].ch = att[t][j].ch => i = j
            /\ Tried(t) \subseteq Range(pre[t].ls)
            /\ \A s \in Accepted(t) :
                 /\ sent[s] = Append(pre[t].sent[s], arg[t].val)
                 /\ s \in Range(listeners)
                 /\ IsOpen(s)
            /\ \A s \in Tried(t) \ Accepted(t) :
                 /\ sent[s] = pre[t].sent[s]
                 /\ s \notin Range(listeners)
                 /\ ~IsOpen(s)
            /\ \A s \in Range(pre[t].ls) \ Tried(t) :
                 /\ sent[s] = pre[t].sent[s]
                 /\ s \in Range(listeners)
                 /\ IsOpen(s)
            /\ pc[t] = "Unlock" =>
                 /\ Tried(t) = Range(pre[t].ls)
                 /\ Len(att[t]) = Len(pre[t].ls)
                 /\ Range(listeners) = Accepted(t)
                 /\ Len(listeners) = Cardinality(Accepted(t))
                 /\ pre[t].spare \subseteq Accepted(t)

\* C16 witness: a Publish is about to return after finding the first of two
\* entries full, evicting it, and delivering to the entry that the eviction
\* moved into its slot.
C16_Witness ==
    \E t \in Threads :
        /\ AtReturn(t, "Publish")
        /\ Len(pre[t].ls) = 2
        /\ att[t][1].ch = pre[t].ls[1]
        /\ ~att[t][1].spare
        /\ att[t][2].ch = pre[t].ls[2]
        /\ att[t][2].spare
        /\ listeners = <<pre[t].ls[2]>>

\* C17: no sink has been closed more than once, and a sink has been closed
\* exactly when one of eviction, closer and Close() has removed it.
C17_ClosedAtMostOnce ==
    \A s \in Sinks :
        /\ nclose[s] <= 1
        /\ nclose[s] = 1 <=> removed[s] \in {"evict", "closer", "close"}
        /\ nclose[s] = 0 <=> removed[s] = "no"

\* C17 witness: the closer of a sink that a Publish evicted is about to
\* return, invoked after a Close() that closed another sink.
C17_Witness ==
    \E t \in Threads :
        /\ AtReturn(t, "Closer")
        /\ pre[t].closed
        /\ removed[arg[t].ch] = "evict"
        /\ \E s \in Sinks : removed[s] = "close"

\* C18: in every state, with the mutex free or held, a sink that is in the
\* registry is open and a sink that was registered and is no longer in the
\* registry is closed, so there is no state between a removal and the close
\* that goes with it; and the sink a Publish is about to try is open.
C18_RegisteredIffOpen ==
    /\ \A s \in Range(listeners) : IsOpen(s) /\ regAt[s] >= 0
    /\ \A s \in Sinks \ Range(listeners) : regAt[s] >= 0 => ~IsOpen(s)
    /\ \A t \in Threads :
         (lk = t /\ pc[t] = "Publish" /\ idx[t] <= Len(listeners))
            => IsOpen(listeners[idx[t]])

\* C18 witness: with the mutex free, one sink is registered, open and holds
\* a value, and the other has been evicted and is closed.
C18_Witness ==
    /\ lk = NoThread
    /\ \E s1, s2 \in Sinks :
         /\ listeners = <<s1>>
         /\ IsOpen(s1)
         /\ buf[s1] # <<>>
         /\ removed[s2] = "evict"
         /\ ~IsOpen(s2)

\* The values published so far in the order of the Publish calls, the value
\* of a Publish that is in its loop included.
History ==
    IF \E t \in Threads : lk = t /\ pc[t] = "Publish"
      THEN Append(published,
                  arg[CHOOSE t \in Threads : lk = t /\ pc[t] = "Publish"].val)
      ELSE published

\* C19: for a sink registered after n Publish calls, the value Subscribe
\* returned is the n-th published value (the zero value if n = 0) and the
\* values placed in the sink are, in order and without gap or repetition,
\* the published values from the (n+1)-st on; while the sink is registered
\* and no Publish is in its loop, it has been given every one of them.
C19_GapFree ==
    \A s \in Sinks :
        regAt[s] >= 0 =>
            /\ snapshot[s] = IF regAt[s] = 0 THEN Zero ELSE published[regAt[s]]
            /\ regAt[s] + Len(sent[s]) <= Len(History)
            /\ sent[s] = SubSeq(History, regAt[s] + 1, regAt[s] + Len(sent[s]))
            /\ (s \in Range(listeners) /\ History = published)
                   => regAt[s] + Len(sent[s]) = Len(published)
            /\ s \in Range(listeners)
                   => regAt[s] + Len(sent[s]) >= Len(published)

\* C19 witness: a sink registered after the first Publish, which published
\* one value, has been given the second, different, value and not the third.
C19_Witness ==
    \E s \in Sinks :
        /\ lk = NoThread
        /\ Len(published) = 3
        /\ regAt[s] = 1
        /\ snapshot[s] = published[1]
        /\ sent[s] = <<published[2]>>
        /\ published[2] # published[1]
        /\ published[3] # published[2]

\* C20: when the closer of sink ch is about to return, ch is not in the
\* registry; every other sink is in the registry exactly if it was when the
\* closer took the mutex, and the registry is shorter by the one entry of ch
\* if ch was in it; no other sink has been closed or given a value, and what
\* was placed in it is received or still queued; closed and the last value
\* are as they were.
C20_CloserIsolation ==
    \A t \in Threads :
        AtReturn(t, "Closer") =>
            LET ch == arg[t].ch IN
            /\ ch \notin Range(listeners)
            /\ Range(listeners) = Range(pre[t].ls) \ {ch}
            /\ Len(listeners) =
                 Len(pre[t].ls) - (IF ch \in Range(pre[t].ls) THEN 1 ELSE 0)
            /\ \A s \in Sinks \ {ch} :
                 /\ nclose[s] = pre[t].nclose[s]
                 /\ sent[s] = pre[t].sent[s]
                 /\ Intact(s)
            /\ closed = pre[t].closed
            /\ last = pre[t].last

\* C20 witness: the closer of the first of two registered sinks is about to
\* return, and the other sink, moved into the first slot, is open and holds
\* a queued value.
C20_Witness ==
    \E t \in Threads :
        /\ AtReturn(t, "Closer")
        /\ Len(pre[t].ls) = 2
        /\ pre[t].ls[1] = arg[t].ch
        /\ listeners = <<pre[t].ls[2]>>
        /\ IsOpen(listeners[1])
        /\ buf[listeners[1]] # <<>>

====
